---- MODULE Spec2Model ----
(***************************************************************************)
(* Model of the log-reader service: the content registry of app.py         *)
(* (upload_file, delete_file, cleanup jobs), the compiled line matcher of  *)
(* filters.py, the chunked forward scan with its result cap, and the       *)
(* backward tail scan of utils.py.                                         *)
(*                                                                         *)
(* Text is a sequence of one-character strings; a file is the sequence of  *)
(* its bytes (ASCII, so that the permissive utf-8 decoding is the          *)
(* identity on every byte the model writes).                               *)
(***************************************************************************)
EXTENDS Integers, Sequences, FiniteSets, TLC

VARIABLES
    \* ---- content registry (app.py module state and the upload folder)
    session_files,      \* session_id -> list of file_info (key may be absent)
    file_hash_map,      \* file_hash -> stored_name (key may be absent)
    disk,               \* physical files of the upload folder
    req,                \* per worker thread: the request it is handling
    job,                \* the background cleanup job
    nextId,             \* uuid4 source: identifiers handed out so far
    pre,                \* registry as it was when the running request began
    \* ---- line matcher (filters.py)
    m_line, m_filters, m_logic, m_cs, m_plan, m_pc, m_result, m_applied,
    \* ---- forward scan (stream_filtered_logs + get_logs)
    content,            \* bytes of the file being scanned or tailed
    s_filters, s_logic, s_engine, chunk_size, max_results,
    s_pc, s_pos, line_number, lines_buffer, s_chunks, s_read,
    all_lines, truncated, response,
    \* ---- tail scan (read_last_lines)
    num_lines, buffer_size, t_pc, offset, buffer, lines, t_result,
    \* ---- timestamp extraction (parse_timestamp called on one line)
    p_line,             \* the text handed to parse_timestamp
    p_parts,            \* how that text was written: its pieces
    p_ts,               \* what parse_timestamp returned
    p_pc,
    \* ---- whole-file time range (get_file_timerange)
    r_pc, first_timestamp, last_timestamp, response_data

regVars    == <<session_files, file_hash_map, disk, req, job, nextId, pre>>
matchVars  == <<m_line, m_filters, m_logic, m_cs, m_plan, m_pc, m_result, m_applied>>
streamVars == <<s_filters, s_logic, s_engine, chunk_size, max_results,
                s_pc, s_pos, line_number, lines_buffer, s_chunks, s_read,
                all_lines, truncated, response>>
tailVars   == <<num_lines, buffer_size, t_pc, offset, buffer, lines, t_result>>
parseVars  == <<p_line, p_parts, p_ts, p_pc>>
rangeVars  == <<r_pc, first_timestamp, last_timestamp, response_data>>
vars       == <<regVars, matchVars, content, streamVars, tailVars, parseVars, rangeVars>>

\* what each part of the model leaves alone
notMatchVars  == <<regVars, content, streamVars, tailVars, parseVars, rangeVars>>
notRegVars    == <<matchVars, content, streamVars, tailVars, parseVars, rangeVars>>
notStreamVars == <<regVars, matchVars, tailVars, parseVars, rangeVars>>
notTailVars   == <<regVars, matchVars, streamVars, parseVars, rangeVars>>
notParseVars  == <<regVars, matchVars, content, streamVars, tailVars, rangeVars>>
notRangeVars  == <<regVars, matchVars, streamVars, parseVars>>

-----------------------------------------------------------------------------
(* Text helpers                                                            *)

None == <<>>

Digits == <<"0", "1", "2", "3", "4", "5", "6", "7", "8", "9">>
IsDigit(c) == \E i \in 1..10 : Digits[i] = c
DigitVal(c) == (CHOOSE i \in 1..10 : Digits[i] = c) - 1

UpperLetters == <<"A", "B", "C", "D", "E", "F", "G", "H", "I", "J", "K", "L", "M",
                  "N", "O", "P", "Q", "R", "S", "T", "U", "V", "W", "X", "Y", "Z">>
LowerLetters == <<"a", "b", "c", "d", "e", "f", "g", "h", "i", "j", "k", "l", "m",
                  "n", "o", "p", "q", "r", "s", "t", "u", "v", "w", "x", "y", "z">>

\* str.lower() on ASCII text
LowerChar(c) ==
    IF \E i \in 1..26 : UpperLetters[i] = c
    THEN LowerLetters[CHOOSE i \in 1..26 : UpperLetters[i] = c]
    ELSE c
Lower(s) == [i \in 1..Len(s) |-> LowerChar(s[i])]

\* the `in` operator on strings
IsSubstring(val, s) ==
    \E i \in 0..(Len(s) - Len(val)) : SubSeq(s, i + 1, i + Len(val)) = val

\* characters the regex class \s accepts
Whitespace == {" ", "\t", "\n", "\r", "\f"}

\* zero-padded decimal rendering, used to write the sample log lines
Fmt2(n) == <<Digits[((n \div 10) % 10) + 1], Digits[(n % 10) + 1]>>
Fmt4(n) == Fmt2(n \div 100) \o Fmt2(n % 100)

-----------------------------------------------------------------------------
(* utils.py: parse_timestamp                                               *)

AllDigits(s, from, to) ==
    /\ to <= Len(s)
    /\ \A i \in from..to : IsDigit(s[i])

RECURSIVE ToInt(_)
ToInt(s) == IF s = <<>> THEN 0 ELSE 10 * ToInt(SubSeq(s, 1, Len(s) - 1)) + DigitVal(s[Len(s)])

\* number of \s characters starting at position p
RECURSIVE SpaceRun(_, _)
SpaceRun(s, p) ==
    IF p <= Len(s) /\ s[p] \in Whitespace THEN 1 + SpaceRun(s, p + 1) ELSE 0

IsLeap(y) == (y % 4 = 0 /\ y % 100 # 0) \/ y % 400 = 0
DaysInMonth(y, m) ==
    IF m = 2 THEN (IF IsLeap(y) THEN 29 ELSE 28)
    ELSE IF m \in {4, 6, 9, 11} THEN 30 ELSE 31

\* mutant: the day of the month is not range-checked
ValidDateTime_NoDayCheck(y, m, d, H, M, S) ==
    /\ y \in 1..9999
    /\ m \in 1..12
    /\ H \in 0..23
    /\ M \in 0..59
    /\ S \in 0..59

\* datetime(y, m, d, H, M, S) raises ValueError outside these ranges
ValidDateTime(y, m, d, H, M, S) ==
    /\ y \in 1..9999
    /\ m \in 1..12
    /\ d \in 1..DaysInMonth(y, m)
    /\ H \in 0..23
    /\ M \in 0..59
    /\ S \in 0..59

\* _TIMESTAMP_RE.match(line): the position of the time part, 0 if no match
TimestampMatch(line) ==
    IF /\ Len(line) >= 12
       /\ line[1] = "["
       /\ AllDigits(line, 2, 5) /\ line[6] = "-"
       /\ AllDigits(line, 7, 8) /\ line[9] = "-"
       /\ AllDigits(line, 10, 11)
       /\ SpaceRun(line, 12) >= 1
    THEN LET p == 12 + SpaceRun(line, 12) IN
         IF /\ Len(line) >= p + 8
            /\ AllDigits(line, p, p + 1) /\ line[p + 2] = ":"
            /\ AllDigits(line, p + 3, p + 4) /\ line[p + 5] = ":"
            /\ AllDigits(line, p + 6, p + 7) /\ line[p + 8] = "]"
         THEN p ELSE 0
    ELSE 0

parse_timestamp(line) ==
    LET p == TimestampMatch(line) IN
    IF p = 0 THEN None
    ELSE LET y == ToInt(SubSeq(line, 2, 5))
             m == ToInt(SubSeq(line, 7, 8))
             d == ToInt(SubSeq(line, 10, 11))
             H == ToInt(SubSeq(line, p, p + 1))
             M == ToInt(SubSeq(line, p + 3, p + 4))
             S == ToInt(SubSeq(line, p + 6, p + 7))
         IN IF ValidDateTime(y, m, d, H, M, S) THEN <<y, m, d, H, M, S>> ELSE None

\* app.py's parse_timestamp (lines 172-186): the same pattern with one group,
\* whose text dateutil reads year first; a component out of range makes
\* dateutil raise, which the bare except turns into None
app_parse_timestamp(line) ==
    LET p == TimestampMatch(line) IN
    IF p = 0 THEN None
    ELSE LET y == ToInt(SubSeq(line, 2, 5))
             m == ToInt(SubSeq(line, 7, 8))
             d == ToInt(SubSeq(line, 10, 11))
             H == ToInt(SubSeq(line, p, p + 1))
             M == ToInt(SubSeq(line, p + 3, p + 4))
             S == ToInt(SubSeq(line, p + 6, p + 7))
         IN IF ValidDateTime(y, m, d, H, M, S) THEN <<y, m, d, H, M, S>> ELSE None

\* datetime ordering: lexicographic on (year, month, day, hour, minute, second)
RECURSIVE TsLessFrom(_, _, _)
TsLessFrom(a, b, i) ==
    IF i > 6 THEN FALSE
    ELSE IF a[i] # b[i] THEN a[i] < b[i]
    ELSE TsLessFrom(a, b, i + 1)
TsLess(a, b) == TsLessFrom(a, b, 1)

-----------------------------------------------------------------------------
(* filters.py: filter configs, apply_filter, apply_filters                 *)

DateFilter(start, end) ==
    [type |-> "date", value |-> <<>>, start_date |-> start, end_date |-> end]
IncludeFilter(term) ==
    [type |-> "include", value |-> term, start_date |-> None, end_date |-> None]
ExcludeFilter(term) ==
    [type |-> "exclude", value |-> term, start_date |-> None, end_date |-> None]

\* `if start and ts < start: return False`, `if end and ts > end: return False`
InBounds(ts, start, end) ==
    /\ ~(start # None /\ TsLess(ts, start))
    /\ ~(end # None /\ TsLess(end, ts))

apply_filter(line, f, case_sensitive) ==
    IF f.type = "date" THEN
        LET timestamp == parse_timestamp(line) IN
        IF timestamp = None THEN FALSE
        ELSE InBounds(timestamp, f.start_date, f.end_date)
    ELSE IF f.type = "include" THEN
        IF case_sensitive THEN IsSubstring(f.value, line)
        ELSE IsSubstring(Lower(f.value), Lower(line))
    ELSE IF f.type = "exclude" THEN
        IF case_sensitive THEN ~IsSubstring(f.value, line)
        ELSE ~IsSubstring(Lower(f.value), Lower(line))
    ELSE TRUE

SelectTypes(filters, types) == SelectSeq(filters, LAMBDA f : f.type \in types)

\* `for f in fs: if not apply_filter(...): return False`
RECURSIVE AllPass(_, _, _, _)
AllPass(line, fs, case_sensitive, i) ==
    IF i > Len(fs) THEN TRUE
    ELSE IF ~apply_filter(line, fs[i], case_sensitive) THEN FALSE
    ELSE AllPass(line, fs, case_sensitive, i + 1)

\* `for f in fs: if apply_filter(...): return True`
RECURSIVE AnyPass(_, _, _, _)
AnyPass(line, fs, case_sensitive, i) ==
    IF i > Len(fs) THEN FALSE
    ELSE IF apply_filter(line, fs[i], case_sensitive) THEN TRUE
    ELSE AnyPass(line, fs, case_sensitive, i + 1)

apply_filters(line, filters, logic, case_sensitive) ==
    IF filters = <<>> THEN TRUE
    ELSE LET date_filters == SelectTypes(filters, {"date"})
             content_filters == SelectTypes(filters, {"include", "exclude"})
         IN IF ~AllPass(line, date_filters, case_sensitive, 1) THEN FALSE
            ELSE IF content_filters # <<>> /\ logic = "AND"
                 THEN AllPass(line, content_filters, case_sensitive, 1)
            ELSE IF content_filters # <<>> /\ logic = "OR"
                 THEN AnyPass(line, content_filters, case_sensitive, 1)
            ELSE TRUE

-----------------------------------------------------------------------------
(* filters.py: compile_filter_plan and its closure match_line              *)

\* mutant: terms are kept as written whatever the case mode
CompiledValue_AsWritten(f, case_sensitive) == f.value

\* `val.lower()` at compile time when not case_sensitive (lines 145-154)
CompiledValue(f, case_sensitive) == IF case_sensitive THEN f.value ELSE Lower(f.value)

compile_filter_plan(filters, logic, case_sensitive) ==
    IF filters = <<>> THEN None
    ELSE LET dates == SelectTypes(filters, {"date"})
             incs  == SelectTypes(filters, {"include"})
             excs  == SelectTypes(filters, {"exclude"})
             cont  == SelectTypes(filters, {"include", "exclude"})
         IN [date_bounds    |-> [i \in 1..Len(dates) |->
                                    <<dates[i].start_date, dates[i].end_date>>],
             include_values |-> [i \in 1..Len(incs) |-> CompiledValue(incs[i], case_sensitive)],
             exclude_values |-> [i \in 1..Len(excs) |-> CompiledValue(excs[i], case_sensitive)],
             content_checks |-> [i \in 1..Len(cont) |->
                                    <<CompiledValue(cont[i], case_sensitive),
                                      cont[i].type = "include">>],
             has_dates   |-> dates # <<>>,
             has_content |-> incs # <<>> \/ excs # <<>>,
             need_lower  |-> ~case_sensitive /\ (incs # <<>> \/ excs # <<>>),
             use_and     |-> logic = "AND"]

\* mutant: only the first date range is tested
DateLoop_FirstOnly(ts, date_bounds, i) ==
    date_bounds = <<>> \/ InBounds(ts, date_bounds[1][1], date_bounds[1][2])

\* `for start, end in date_bounds:` with the two early returns
RECURSIVE DateLoop(_, _, _)
DateLoop(ts, date_bounds, i) ==
    IF i > Len(date_bounds) THEN TRUE
    ELSE IF ~InBounds(ts, date_bounds[i][1], date_bounds[i][2]) THEN FALSE
    ELSE DateLoop(ts, date_bounds, i + 1)

\* `for val in include_values: if val not in search_line: return False`
RECURSIVE IncludeLoop(_, _, _)
IncludeLoop(search_line, include_values, i) ==
    IF i > Len(include_values) THEN TRUE
    ELSE IF ~IsSubstring(include_values[i], search_line) THEN FALSE
    ELSE IncludeLoop(search_line, include_values, i + 1)

\* `for val in exclude_values: if val in search_line: return False`
RECURSIVE ExcludeLoop(_, _, _)
ExcludeLoop(search_line, exclude_values, i) ==
    IF i > Len(exclude_values) THEN TRUE
    ELSE IF IsSubstring(exclude_values[i], search_line) THEN FALSE
    ELSE ExcludeLoop(search_line, exclude_values, i + 1)

\* `for val, is_include in content_checks: if is_include == (val in line): break`
\* `else: return False`
RECURSIVE OrLoop(_, _, _)
OrLoop(search_line, content_checks, i) ==
    IF i > Len(content_checks) THEN FALSE
    ELSE IF content_checks[i][2] = IsSubstring(content_checks[i][1], search_line) THEN TRUE
    ELSE OrLoop(search_line, content_checks, i + 1)

\* mutant: a line without a timestamp is let through the date part
DatePart_KeepsUndated(plan, line) ==
    IF plan.has_dates
    THEN LET ts == parse_timestamp(line) IN
         IF ts = None THEN TRUE ELSE DateLoop(ts, plan.date_bounds, 1)
    ELSE TRUE

\* the date part of match_line: lines 164-172
DatePart(plan, line) ==
    IF plan.has_dates
    THEN LET ts == parse_timestamp(line) IN
         IF ts = None THEN FALSE ELSE DateLoop(ts, plan.date_bounds, 1)
    ELSE TRUE

\* mutant: the exclude loop is left out of the AND branch
AndPart_NoExclude(plan, search_line) ==
    IncludeLoop(search_line, plan.include_values, 1)

\* the AND branch of match_line: lines 179-185
AndPart(plan, search_line) ==
    /\ IncludeLoop(search_line, plan.include_values, 1)
    /\ ExcludeLoop(search_line, plan.exclude_values, 1)

\* mutant: the OR branch accepts only on a term that is present, whatever its kind
OrPart_PresenceOnly(plan, search_line) ==
    \E i \in 1..Len(plan.content_checks) :
        IsSubstring(plan.content_checks[i][1], search_line)

\* the OR branch of match_line: lines 186-192
OrPart(plan, search_line) == OrLoop(search_line, plan.content_checks, 1)

match_line(plan, line) ==
    IF ~DatePart(plan, line) THEN FALSE
    ELSE IF ~plan.has_content THEN TRUE
    ELSE LET search_line == IF plan.need_lower THEN Lower(line) ELSE line IN
         IF plan.use_and THEN AndPart(plan, search_line)
         ELSE OrPart(plan, search_line)

-----------------------------------------------------------------------------
(* Sample text: log lines with and without a leading timestamp             *)

TsPrefix(y, m, d, H, M, S) ==
    <<"[">> \o Fmt4(y) \o <<"-">> \o Fmt2(m) \o <<"-">> \o Fmt2(d) \o <<" ">>
        \o Fmt2(H) \o <<":">> \o Fmt2(M) \o <<":">> \o Fmt2(S) \o <<"]">>

T1 == <<2024, 1, 1, 0, 0, 0>>
T2 == <<2024, 1, 2, 0, 0, 0>>
T3 == <<2024, 1, 3, 0, 0, 0>>

Prefixes ==
    { <<>>,
      TsPrefix(2024, 1, 1, 0, 0, 0),
      TsPrefix(2024, 1, 2, 0, 0, 0),
      TsPrefix(2024, 1, 3, 0, 0, 0),
      TsPrefix(2024, 13, 1, 0, 0, 0) }
Bodies == { <<>>, <<" ", "a", "b">>, <<" ", "A", "b">>, <<" ", "b">> }
MLines == { p \o b : p \in Prefixes, b \in Bodies }

Terms == { <<"a">>, <<"B">> }
FilterPool ==
    { DateFilter(T2, None), DateFilter(None, T2) }
        \cup { IncludeFilter(t) : t \in Terms }
        \cup { ExcludeFilter(t) : t \in Terms }

\* longest filter list the matcher is exercised with
MaxFilters == 3

RECURSIVE SeqsUpTo(_, _)
SeqsUpTo(S, n) ==
    IF n = 0 THEN { <<>> }
    ELSE LET shorter == SeqsUpTo(S, n - 1) IN
         shorter \cup { Append(q, x) : q \in { r \in shorter : Len(r) = n - 1 }, x \in S }

FilterLists == SeqsUpTo(FilterPool, MaxFilters)

-----------------------------------------------------------------------------
(* Idle values of each group of variables, for the specifications that do  *)
(* not exercise it                                                         *)

MatchIdle ==
    /\ m_line = <<>> /\ m_filters = <<>> /\ m_logic = "AND" /\ m_cs = TRUE
    /\ m_plan = None /\ m_pc = "idle" /\ m_result = FALSE /\ m_applied = FALSE

-----------------------------------------------------------------------------
(* The matcher: one plan compiled per request, one call per line           *)
(* (stream_filtered_logs, filters.py lines 205-216)                        *)

MatchInit ==
    /\ m_line \in MLines
    /\ m_filters \in FilterLists
    /\ m_logic \in {"AND", "OR"}
    /\ m_cs \in BOOLEAN
    /\ m_plan = None
    /\ m_pc = "new"
    /\ m_result = FALSE
    /\ m_applied = FALSE

\* matcher = compile_filter_plan(filters, logic, case_sensitive)
Compile ==
    /\ m_pc = "new"
    /\ m_plan' = compile_filter_plan(m_filters, m_logic, m_cs)
    /\ m_pc' = "compiled"
    /\ UNCHANGED <<m_line, m_filters, m_logic, m_cs, m_result, m_applied>>
    /\ UNCHANGED notMatchVars

\* `if matcher and not matcher(line): continue`; m_applied is what the
\* uncompiled apply_filters answers on the same arguments
MatchLine ==
    /\ m_pc = "compiled"
    /\ m_result' = IF m_plan = None THEN TRUE ELSE match_line(m_plan, m_line)
    /\ m_applied' = apply_filters(m_line, m_filters, m_logic, m_cs)
    /\ m_pc' = "matched"
    /\ UNCHANGED <<m_line, m_filters, m_logic, m_cs, m_plan>>
    /\ UNCHANGED notMatchVars

\* the scan moves on to another line with the same compiled plan
NextLine ==
    /\ m_pc = "matched"
    /\ m_line' \in MLines
    /\ m_pc' = "compiled"
    /\ UNCHANGED <<m_filters, m_logic, m_cs, m_plan, m_result, m_applied>>
    /\ UNCHANGED notMatchVars

RegIdle ==
    /\ session_files = <<>> /\ file_hash_map = <<>> /\ disk = {}
    /\ req = <<>> /\ job = <<>> /\ nextId = 0 /\ pre = <<>>

StreamIdle ==
    /\ s_filters = <<>> /\ s_logic = "AND" /\ s_engine = "idle"
    /\ chunk_size = 0 /\ max_results = 0
    /\ s_pc = "idle" /\ s_pos = 0 /\ line_number = 0 /\ lines_buffer = <<>>
    /\ s_chunks = <<>> /\ s_read = 0
    /\ all_lines = <<>> /\ truncated = FALSE /\ response = <<>>

TailIdle ==
    /\ num_lines = 0 /\ buffer_size = 0 /\ t_pc = "idle" /\ offset = 0
    /\ buffer = <<>> /\ lines = <<>> /\ t_result = <<>>

ParseIdle ==
    /\ p_line = <<>> /\ p_parts = <<>> /\ p_ts = <<>> /\ p_pc = "idle"

RangeIdle ==
    /\ r_pc = "idle" /\ first_timestamp = <<>> /\ last_timestamp = <<>>
    /\ response_data = <<>>

InitMatch ==
    /\ MatchInit /\ RegIdle /\ content = <<>> /\ StreamIdle /\ TailIdle /\ ParseIdle
    /\ RangeIdle

NextMatch == Compile \/ MatchLine \/ NextLine

SpecMatch == InitMatch /\ [][NextMatch]_vars

-----------------------------------------------------------------------------
(* Properties of the matcher                                               *)

TsLeq(a, b) == a = b \/ TsLess(a, b)

FiltersOf(filters, type) == { filters[i] : i \in { j \in 1..Len(filters) : filters[j].type = type } }

\* the line carries a timestamp that lies inside every date range of the list
InEveryDateRange(line, filters) ==
    LET ts == parse_timestamp(line) IN
    /\ ts # None
    /\ \A f \in FiltersOf(filters, "date") :
          /\ f.start_date = None \/ TsLeq(f.start_date, ts)
          /\ f.end_date = None \/ TsLeq(ts, f.end_date)

\* the text a term is looked up in, and the term, in the plan's case mode
InCaseMode(s) == IF m_cs THEN s ELSE Lower(s)
TermPresent(f, line) == IsSubstring(InCaseMode(f.value), InCaseMode(line))

PassesDates(line, filters) ==
    FiltersOf(filters, "date") = {} \/ InEveryDateRange(line, filters)

\* C8: with at least one date-range spec in the plan, under AND and under OR,
\* a line is accepted (by the compiled plan and by apply_filters) only if it
\* has a parsable leading timestamp lying within every date range, bounds
\* inclusive; no content spec can rescue it.
C8_DatesAlwaysAnd ==
    (m_pc = "matched" /\ FiltersOf(m_filters, "date") # {})
        => /\ m_result => InEveryDateRange(m_line, m_filters)
           /\ m_applied => InEveryDateRange(m_line, m_filters)

\* a satisfied include under OR, a date range that fails, and the line rejected
C8_Witness ==
    /\ m_pc = "matched" /\ m_logic = "OR"
    /\ FiltersOf(m_filters, "date") # {}
    /\ \E f \in FiltersOf(m_filters, "include") : TermPresent(f, m_line)
    /\ ~InEveryDateRange(m_line, m_filters)
    /\ ~m_result

\* C9: under AND, a line that passes the date specs is accepted exactly when
\* every include term occurs in it and no exclude term occurs in it (terms and
\* line compared in the plan's case mode).
C9_AndSemantics ==
    (m_pc = "matched" /\ m_logic = "AND" /\ PassesDates(m_line, m_filters))
        => (m_result <=>
               /\ \A f \in FiltersOf(m_filters, "include") : TermPresent(f, m_line)
               /\ \A f \in FiltersOf(m_filters, "exclude") : ~TermPresent(f, m_line))

\* a line holding both an include term and an exclude term is rejected
C9_Witness ==
    /\ m_pc = "matched" /\ m_logic = "AND" /\ PassesDates(m_line, m_filters)
    /\ FiltersOf(m_filters, "include") # {}
    /\ \A f \in FiltersOf(m_filters, "include") : TermPresent(f, m_line)
    /\ \E f \in FiltersOf(m_filters, "exclude") : TermPresent(f, m_line)
    /\ ~m_result

\* C10: under OR with at least one content spec, a line that passes the date
\* specs is accepted exactly when some include term occurs in it or some
\* exclude term does not occur in it.
C10_OrSemantics ==
    (/\ m_pc = "matched" /\ m_logic = "OR"
     /\ FiltersOf(m_filters, "include") \cup FiltersOf(m_filters, "exclude") # {}
     /\ PassesDates(m_line, m_filters))
        => (m_result <=>
               \/ \E f \in FiltersOf(m_filters, "include") : TermPresent(f, m_line)
               \/ \E f \in FiltersOf(m_filters, "exclude") : ~TermPresent(f, m_line))

\* an include term present together with an exclude term present: accepted;
\* the mirror case (no content spec satisfied: rejected) is C10_WitnessReject
C10_Witness ==
    /\ m_pc = "matched" /\ m_logic = "OR" /\ PassesDates(m_line, m_filters)
    /\ \E f \in FiltersOf(m_filters, "include") : TermPresent(f, m_line)
    /\ \E f \in FiltersOf(m_filters, "exclude") : TermPresent(f, m_line)
    /\ m_result

C10_WitnessReject ==
    /\ m_pc = "matched" /\ m_logic = "OR" /\ PassesDates(m_line, m_filters)
    /\ FiltersOf(m_filters, "include") # {} /\ FiltersOf(m_filters, "exclude") # {}
    /\ \A f \in FiltersOf(m_filters, "include") : ~TermPresent(f, m_line)
    /\ \A f \in FiltersOf(m_filters, "exclude") : TermPresent(f, m_line)
    /\ ~m_result

-----------------------------------------------------------------------------
(* Files: bytes read in text mode with universal newlines                  *)
(* (open(file_path, 'r', ...) and `for line in f`)                         *)

\* longest file, in lines, that the scans are exercised with
MaxFileLines == 3

RECURSIVE Join(_, _)
Join(ls, term) ==
    IF ls = <<>> THEN <<>> ELSE ls[1] \o term \o Join(Tail(ls), term)

\* a file whose last line has no terminator
DropLastTerminator(bytes, term) ==
    IF Len(bytes) >= Len(term) THEN SubSeq(bytes, 1, Len(bytes) - Len(term)) ELSE bytes

FilesOf(pool, n) ==
    LET texts == SeqsUpTo(pool, n) IN
    { Join(ls, <<"\n">>) : ls \in texts }
        \cup { Join(ls, <<"\r", "\n">>) : ls \in texts }
        \cup { DropLastTerminator(Join(ls, <<"\n">>), <<"\n">>) : ls \in texts }

\* index of the first line terminator after position pos, Len + 1 if none
RECURSIVE TerminatorAfter(_, _)
TerminatorAfter(bytes, pos) ==
    IF pos >= Len(bytes) THEN Len(bytes) + 1
    ELSE IF bytes[pos + 1] \in {"\n", "\r"} THEN pos + 1
    ELSE TerminatorAfter(bytes, pos + 1)

\* one step of `for line in f`: the line starting after pos, its terminator
\* translated to "\n", and the position after it
ReadLine(bytes, pos) ==
    LET t == TerminatorAfter(bytes, pos) IN
    IF t > Len(bytes)
    THEN [line |-> SubSeq(bytes, pos + 1, Len(bytes)), next |-> Len(bytes)]
    ELSE [line |-> SubSeq(bytes, pos + 1, t - 1) \o <<"\n">>,
          next |-> IF bytes[t] = "\r" /\ t < Len(bytes) /\ bytes[t + 1] = "\n"
                   THEN t + 1 ELSE t]

\* str.rstrip(chars)
RECURSIVE RStrip(_, _)
RStrip(s, chars) ==
    IF s # <<>> /\ s[Len(s)] \in chars THEN RStrip(SubSeq(s, 1, Len(s) - 1), chars) ELSE s

-----------------------------------------------------------------------------
(* stream_filtered_logs (the generator) and the loop of get_logs that      *)
(* consumes it                                                             *)

MAX_RESULTS == 50000
DefaultChunkSize == 1000

\* largest chunk size and result cap tried besides the configured ones
MaxChunk == 2
MaxCap == 2

ScanLines ==
    { TsPrefix(2024, 1, 1, 0, 0, 0) \o <<" ", "a", "b">>,
      TsPrefix(2024, 1, 3, 0, 0, 0) \o <<" ", "A", "b">>,
      <<>> }
ScanFiles == FilesOf(ScanLines, MaxFileLines)

\* the plans a scan is run with: <<filters, logic, case_sensitive>>
ScanPlans ==
    { <<<<>>, "AND", TRUE>>,
      <<<<IncludeFilter(<<"a">>)>>, "AND", TRUE>>,
      <<<<IncludeFilter(<<"a">>)>>, "AND", FALSE>>,
      <<<<DateFilter(T2, None), ExcludeFilter(<<"a">>)>>, "AND", TRUE>>,
      <<<<IncludeFilter(<<"A">>), ExcludeFilter(<<"b">>)>>, "OR", TRUE>>,
      <<<<IncludeFilter(<<"x">>)>>, "OR", TRUE>> }

StreamInit ==
    /\ content \in ScanFiles
    /\ \E plan \in ScanPlans :
          /\ s_filters = plan[1] /\ s_logic = plan[2]
          \* app.py's stream_filtered_logs has no case_sensitive parameter
          /\ s_engine \in (IF plan[3] THEN {"app", "filters"} ELSE {"filters"})
          /\ m_cs = plan[3]
    /\ chunk_size \in (1..MaxChunk) \cup {DefaultChunkSize}
    /\ max_results \in (0..MaxCap) \cup {MAX_RESULTS}
    /\ s_pc = "scan" /\ s_pos = 0 /\ line_number = 0 /\ lines_buffer = <<>>
    /\ s_chunks = <<>> /\ s_read = 0
    /\ all_lines = <<>> /\ truncated = FALSE /\ response = <<>>

\* the filter test of the scan loop: filters.py line 215, app.py line 272
Keeps(line) ==
    IF s_engine = "filters"
    THEN LET matcher == compile_filter_plan(s_filters, s_logic, m_cs) IN
         matcher = None \/ match_line(matcher, line)
    ELSE s_filters = <<>> \/ apply_filters(line, s_filters, s_logic, TRUE)

\* mutant: the counter advances on kept lines only
NextLineNumber_KeptOnly(n, kept) == IF kept THEN n + 1 ELSE n

\* `for line_number, line in enumerate(f, start=1)`: the counter after one
\* more line has been read
NextLineNumber(n, kept) == n + 1

\* mutant: the buffer is never found full
ChunkFull_Never(buf, size) == FALSE

\* `if len(lines_buffer) >= chunk_size`
ChunkFull(buf, size) == Len(buf) >= size

\* one iteration of the scan loop, up to the yield if the chunk is full
ScanLine ==
    /\ s_pc = "scan"
    /\ s_pos < Len(content)
    /\ LET r == ReadLine(content, s_pos)
           line == RStrip(r.line, {"\n", "\r"})
           kept == Keeps(line)
           n == NextLineNumber(line_number, kept)
           buf == IF kept
                  THEN Append(lines_buffer, [line_number |-> n, content |-> line])
                  ELSE lines_buffer
       IN /\ s_pos' = r.next
          /\ s_read' = s_read + 1
          /\ line_number' = n
          /\ lines_buffer' = buf
          /\ IF kept /\ ChunkFull(buf, chunk_size)
             THEN s_pc' = "yielded" /\ s_chunks' = Append(s_chunks, buf)
             ELSE s_pc' = "scan" /\ UNCHANGED s_chunks
    /\ UNCHANGED <<content, s_filters, s_logic, s_engine, chunk_size, max_results,
                   all_lines, truncated, response>>
    /\ UNCHANGED notStreamVars

\* end of file: `if lines_buffer: yield lines_buffer`, else the generator ends
ScanEnd ==
    /\ s_pc = "scan"
    /\ s_pos = Len(content)
    /\ IF lines_buffer # <<>>
       THEN s_pc' = "yielded_rest" /\ s_chunks' = Append(s_chunks, lines_buffer)
       ELSE s_pc' = "exhausted" /\ UNCHANGED s_chunks
    /\ UNCHANGED <<content, s_filters, s_logic, s_engine, chunk_size, max_results,
                   s_pos, line_number, lines_buffer, s_read,
                   all_lines, truncated, response>>
    /\ UNCHANGED notStreamVars

\* mutant: the cap test is off by one
OverCap_AtCap(have, chunk, cap) == Len(have) + Len(chunk) >= cap

\* `len(all_lines) + len(chunk) > max_results`
OverCap(have, chunk, cap) == Len(have) + Len(chunk) > cap

\* the body of get_logs' loop on one chunk (app.py lines 603-611); when it
\* does not break, the generator is resumed: `lines_buffer = []`
Consume ==
    /\ s_pc \in {"yielded", "yielded_rest"}
    /\ LET chunk == lines_buffer IN
       IF OverCap(all_lines, chunk, max_results)
       THEN LET remaining == max_results - Len(all_lines) IN
            /\ all_lines' = all_lines \o SubSeq(chunk, 1, remaining)
            /\ truncated' = TRUE
            /\ s_pc' = "break"
            /\ UNCHANGED lines_buffer
       ELSE /\ all_lines' = all_lines \o chunk
            /\ UNCHANGED truncated
            /\ IF s_pc = "yielded"
               THEN s_pc' = "scan" /\ lines_buffer' = <<>>
               ELSE s_pc' = "exhausted" /\ UNCHANGED lines_buffer
    /\ UNCHANGED <<content, s_filters, s_logic, s_engine, chunk_size, max_results,
                   s_pos, line_number, s_chunks, s_read, response>>
    /\ UNCHANGED notStreamVars

\* first timestamp of the emitted lines, scanning forward (lines 617-621)
RECURSIVE FirstTimestamp(_, _)
FirstTimestamp(ls, i) ==
    IF i > Len(ls) THEN None
    ELSE IF app_parse_timestamp(ls[i].content) # None THEN app_parse_timestamp(ls[i].content)
    ELSE FirstTimestamp(ls, i + 1)

\* mutant: only the last emitted line is looked at
LastTimestamp_LastLineOnly(ls, i) ==
    IF i < 1 THEN None ELSE app_parse_timestamp(ls[i].content)

\* last timestamp of the emitted lines, scanning backward (lines 623-627)
RECURSIVE LastTimestamp(_, _)
LastTimestamp(ls, i) ==
    IF i < 1 THEN None
    ELSE IF app_parse_timestamp(ls[i].content) # None THEN app_parse_timestamp(ls[i].content)
    ELSE LastTimestamp(ls, i - 1)

\* the response of get_logs (lines 615-641)
Respond ==
    /\ s_pc \in {"exhausted", "break"}
    /\ response' = [lines |-> all_lines,
                    total |-> Len(all_lines),
                    truncated |-> truncated,
                    max_results |-> max_results,
                    start_time |-> FirstTimestamp(all_lines, 1),
                    end_time |-> LastTimestamp(all_lines, Len(all_lines))]
    /\ s_pc' = "done"
    /\ UNCHANGED <<content, s_filters, s_logic, s_engine, chunk_size, max_results,
                   s_pos, line_number, lines_buffer, s_chunks, s_read,
                   all_lines, truncated>>
    /\ UNCHANGED notStreamVars

InitStream ==
    /\ StreamInit /\ RegIdle /\ TailIdle /\ ParseIdle /\ RangeIdle
    /\ m_line = <<>> /\ m_filters = <<>> /\ m_logic = "AND"
    /\ m_plan = None /\ m_pc = "idle" /\ m_result = FALSE /\ m_applied = FALSE

NextStream == ScanLine \/ ScanEnd \/ Consume \/ Respond

SpecStream == InitStream /\ [][NextStream]_vars

-----------------------------------------------------------------------------
(* Properties of the scan                                                  *)

\* the lines of a file as text-mode iteration delivers them, stripped
RECURSIVE LinesFrom(_, _)
LinesFrom(bytes, pos) ==
    IF pos >= Len(bytes) THEN <<>>
    ELSE LET r == ReadLine(bytes, pos) IN
         <<RStrip(r.line, {"\n", "\r"})>> \o LinesFrom(bytes, r.next)

\* the matching lines of the scanned file, each with its 1-based position
MatchingLines ==
    LET ls == LinesFrom(content, 0)
        numbered == [i \in 1..Len(ls) |-> [line_number |-> i, content |-> ls[i]]]
    IN SelectSeq(numbered,
                 LAMBDA e : apply_filters(e.content, s_filters, s_logic, m_cs))

RECURSIVE Flatten(_)
Flatten(chunks) == IF chunks = <<>> THEN <<>> ELSE chunks[1] \o Flatten(Tail(chunks))

Min(a, b) == IF a < b THEN a ELSE b

\* C5: a scan that runs to the end of the file has yielded ceil(M/chunk_size)
\* non-empty chunks, all of exactly chunk_size entries except possibly the
\* last, whose concatenation is the M matching lines in file order, each with
\* its 1-based position in the file.
C5_Chunking ==
    s_pc = "exhausted" =>
        LET M == Len(MatchingLines)
            k == Len(s_chunks)
        IN /\ k = (M + chunk_size - 1) \div chunk_size
           /\ \A i \in 1..k :
                 /\ Len(s_chunks[i]) >= 1
                 /\ Len(s_chunks[i]) <= chunk_size
                 /\ i < k => Len(s_chunks[i]) = chunk_size
           /\ Flatten(s_chunks) = MatchingLines

\* several chunks, and a kept line numbered past a filtered-out one
C5_Witness ==
    /\ s_pc = "exhausted"
    /\ Len(s_chunks) >= 2
    /\ \E i \in 1..Len(MatchingLines) : MatchingLines[i].line_number > i
    /\ Flatten(s_chunks) = MatchingLines

\* a full chunk followed by a short last one
C5_WitnessShortLast ==
    /\ s_pc = "exhausted"
    /\ Len(s_chunks) = 2
    /\ Len(s_chunks[1]) = chunk_size
    /\ Len(s_chunks[2]) < chunk_size

\* C6: get_logs returns the first min(M, max_results) matching lines in
\* order, total is that count, and truncated is true exactly when
\* M > max_results.
C6_Truncation ==
    s_pc = "done" =>
        LET M == Len(MatchingLines)
            n == Min(M, max_results)
        IN /\ response.lines = SubSeq(MatchingLines, 1, n)
           /\ response.total = n
           /\ response.truncated <=> (M > max_results)

\* more matching lines than the cap: cut to the cap and flagged
C6_Witness ==
    /\ s_pc = "done"
    /\ max_results >= 1
    /\ Len(MatchingLines) > max_results
    /\ response.total = max_results
    /\ response.truncated

\* exactly as many matching lines as the cap: all returned, not flagged
C6_WitnessAtCap ==
    /\ s_pc = "done"
    /\ max_results >= 1
    /\ Len(MatchingLines) = max_results
    /\ response.total = max_results
    /\ ~response.truncated

-----------------------------------------------------------------------------
(* utils.py / app.py: read_last_lines                                      *)

DefaultNumLines == 1000
DefaultBufferSize == 8192

\* largest num_lines and buffer_size tried besides the defaults
MaxNumLines == 2
MaxBufferSize == 4

TailLines == { <<"a", "b">>, <<"c">>, <<>> }
TailFiles == FilesOf(TailLines, MaxFileLines)

\* bytes.split(sep): one more piece than there are separators
RECURSIVE SplitFrom(_, _, _, _)
SplitFrom(bytes, sep, i, piece) ==
    IF i > Len(bytes) THEN <<piece>>
    ELSE IF bytes[i] = sep THEN <<piece>> \o SplitFrom(bytes, sep, i + 1, <<>>)
    ELSE SplitFrom(bytes, sep, i + 1, Append(piece, bytes[i]))
Split(bytes, sep) == SplitFrom(bytes, sep, 1, <<>>)

\* seq[-n:]
LastN(seq, n) == IF Len(seq) <= n THEN seq ELSE SubSeq(seq, Len(seq) - n + 1, Len(seq))

TailInit ==
    /\ content \in TailFiles
    /\ num_lines \in (1..MaxNumLines) \cup {DefaultNumLines}
    /\ buffer_size \in (1..MaxBufferSize) \cup {DefaultBufferSize}
    /\ t_pc = "open" /\ offset = 0 /\ buffer = <<>> /\ lines = <<>> /\ t_result = <<>>

\* `while len(lines) < num_lines and offset < file_size`
TailLoopCondition == Len(lines) < num_lines /\ offset < Len(content)

\* lines 17-28: open, seek to the end, the empty file
TailOpen ==
    /\ t_pc = "open"
    /\ t_pc' = IF Len(content) = 0 THEN "done" ELSE "loop"
    /\ UNCHANGED <<content, num_lines, buffer_size, offset, buffer, lines, t_result>>
    /\ UNCHANGED notTailVars

\* lines 30-47: one backward read of at most buffer_size bytes
TailRead ==
    /\ t_pc = "loop"
    /\ TailLoopCondition
    /\ LET file_size == Len(content)
           read_size == Min(buffer_size, file_size - offset)
           newOffset == offset + read_size
           chunk == SubSeq(content, file_size - newOffset + 1,
                           file_size - newOffset + read_size)
           newBuffer == chunk \o buffer
           newLines == Split(newBuffer, "\n")
       IN /\ offset' = newOffset
          /\ buffer' = newBuffer
          /\ lines' = newLines
          /\ t_pc' = IF Len(newLines) > num_lines THEN "decode" ELSE "loop"
    /\ UNCHANGED <<content, num_lines, buffer_size, t_result>>
    /\ UNCHANGED notTailVars

\* the loop condition fails
TailLoopExit ==
    /\ t_pc = "loop"
    /\ ~TailLoopCondition
    /\ t_pc' = "decode"
    /\ UNCHANGED <<content, num_lines, buffer_size, offset, buffer, lines, t_result>>
    /\ UNCHANGED notTailVars

\* lines 49-58: strip the carriage return, drop empty strings, keep the last
TailReturn ==
    /\ t_pc = "decode"
    /\ LET decoded_lines == [i \in 1..Len(lines) |-> RStrip(lines[i], {"\r"})]
       IN t_result' = LastN(SelectSeq(decoded_lines, LAMBDA l : l # <<>>), num_lines)
    /\ t_pc' = "done"
    /\ UNCHANGED <<content, num_lines, buffer_size, offset, buffer, lines>>
    /\ UNCHANGED notTailVars

InitTail == TailInit /\ RegIdle /\ MatchIdle /\ StreamIdle /\ ParseIdle /\ RangeIdle

NextTail == TailOpen \/ TailRead \/ TailLoopExit \/ TailReturn

SpecTail == InitTail /\ [][NextTail]_vars

\* the non-empty lines of the whole file, carriage returns stripped
NonEmptyLines(bytes) ==
    LET all == Split(bytes, "\n")
        stripped == [i \in 1..Len(all) |-> RStrip(all[i], {"\r"})]
    IN SelectSeq(stripped, LAMBDA l : l # <<>>)

\* C7: read_last_lines returns the last num_lines non-empty lines of the file
\* (all of them if there are fewer), in file order, each a complete line.
C7_TailContract ==
    t_pc = "done" => t_result = LastN(NonEmptyLines(content), num_lines)

\* every returned entry is a complete line of the file (the weaker half of C7)
C7_NoFragment ==
    t_pc = "done" =>
        \A i \in 1..Len(t_result) :
            \E j \in 1..Len(NonEmptyLines(content)) : t_result[i] = NonEmptyLines(content)[j]

-----------------------------------------------------------------------------
(* app.py: the content registry. Request handlers run on worker threads    *)
(* and the cleanup job on the scheduler's thread; nothing is locked, so a  *)
(* handler is a sequence of steps, each one access to session_files,       *)
(* file_hash_map or the upload folder.                                     *)

\* request threads, guest sessions, distinct file contents, uuid4 values
NumWorkers == 2
NumSessions == 2
NumHashes == 2
MaxUploads == 2

Workers == 1..NumWorkers
Sessions == 1..NumSessions
Hashes == 1..NumHashes
\* the extension of the uploaded file's name
Exts == { <<"l", "o", "g">>, <<"L", "O", "G">>, <<"t", "x", "t">> }

NoName == [uid |-> 0, ext |-> <<>>]
NoFile == [id |-> 0, stored_name |-> NoName, hash |-> 0]
IdleReq ==
    [pc |-> "idle", op |-> "none", session_id |-> 0, file_hash |-> 0, ext |-> <<>>,
     uid |-> 0, file_id |-> 0, stored_name |-> NoName, file_to_delete |-> NoFile,
     status |-> 0, file |-> NoFile, duplicate |-> FALSE]
IdleJob == [pc |-> "idle", referenced_files |-> {}, todo |-> {}, stored_name |-> NoName]

RegInit ==
    /\ session_files = <<>>
    /\ file_hash_map = <<>>
    /\ disk = {}
    /\ req = [w \in Workers |-> IdleReq]
    /\ job = IdleJob
    /\ nextId = 0
    /\ pre = [by |-> -1, after |-> -1, session_files |-> <<>>, file_hash_map |-> <<>>,
              disk |-> {}]

Range(f) == { f[x] : x \in DOMAIN f }

\* whether os.remove / Path.unlink of an existing file succeeds: the upload
\* folder belongs to the service, and removals are taken to succeed
UnlinkOutcomes == {TRUE}

\* filename.rsplit('.', 1)[1].lower() == 'log'
allowed_file(ext) == Lower(ext) = <<"l", "o", "g">>

\* upload_dir.glob('*.log') and glob('*.log_1'): case-sensitive on the name
GlobMatch(name) == name.ext \in { <<"l", "o", "g">>, <<"l", "o", "g", "_", "1">> }

\* session_files.get(session_id, [])
get_user_files(session_id) ==
    IF session_id \in DOMAIN session_files THEN session_files[session_id] ELSE <<>>

AllFiles == UNION { Range(session_files[s]) : s \in DOMAIN session_files }
OnDisk(name) == \E f \in disk : f.name = name
WithoutKey(map, k) == [x \in DOMAIN map \ {k} |-> map[x]]

\* list.remove(x): the first equal element goes
RemoveFirst(seq, x) ==
    LET i == CHOOSE j \in 1..Len(seq) : seq[j] = x /\ \A k \in 1..(j - 1) : seq[k] # x
    IN SubSeq(seq, 1, i - 1) \o SubSeq(seq, i + 1, Len(seq))

\* a thread is free before its first request and once it has responded; the
\* threads are interchangeable, so a request goes to the first free one
Free(w) == req[w].pc \in {"idle", "done"}
Takes(w) == Free(w) /\ \A v \in Workers : v < w => ~Free(v)

Respond_(w, status, file, duplicate) ==
    [req[w] EXCEPT !.pc = "done", !.status = status, !.file = file, !.duplicate = duplicate]

\* ---- upload_file

\* lines 294-324: validation, fingerprint, the session's list created, and the
\* scan of the session's own list for the same fingerprint
U_Begin(w, s, h, x) ==
    /\ Takes(w)
    /\ LET r == [IdleReq EXCEPT !.op = "upload", !.session_id = s, !.file_hash = h, !.ext = x]
           files == get_user_files(s)
           same == { i \in 1..Len(files) : files[i].hash = h }
       IN IF ~allowed_file(x)
          THEN /\ req' = [req EXCEPT ![w] = [r EXCEPT !.pc = "done", !.status = 400]]
               /\ UNCHANGED <<session_files, nextId>>
          ELSE /\ session_files' = IF s \in DOMAIN session_files THEN session_files
                                   ELSE session_files @@ (s :> <<>>)
               /\ IF same # {}
                  THEN /\ req' = [req EXCEPT ![w] =
                                    [r EXCEPT !.pc = "done", !.status = 200,
                                              !.file = files[CHOOSE i \in same : \A j \in same : i <= j],
                                              !.duplicate = TRUE]]
                       /\ UNCHANGED nextId
                  ELSE /\ req' = [req EXCEPT ![w] = [r EXCEPT !.pc = "u_lookup", !.uid = nextId + 1]]
                       /\ nextId' = nextId + 1
    /\ UNCHANGED <<file_hash_map, disk, job>>

\* mutant: the fingerprint map is not consulted, every upload saves a file
U_Lookup_NoDedup(w) ==
    /\ req[w].pc = "u_lookup"
    /\ req' = [req EXCEPT ![w].pc = "u_save"]
    /\ UNCHANGED <<session_files, file_hash_map, disk, job, nextId>>
    /\ UNCHANGED <<pre, notRegVars>>

\* line 327: `if file_hash in file_hash_map`
U_Lookup(w) ==
    /\ req[w].pc = "u_lookup"
    /\ req' = [req EXCEPT ![w].pc =
                  IF req[w].file_hash \in DOMAIN file_hash_map THEN "u_reuse" ELSE "u_save"]
    /\ UNCHANGED <<session_files, file_hash_map, disk, job, nextId>>
    /\ UNCHANGED <<pre, notRegVars>>

\* line 329: `stored_name = file_hash_map[file_hash]` (KeyError if the entry
\* has gone since the test)
U_Reuse(w) ==
    /\ req[w].pc = "u_reuse"
    /\ req' = [req EXCEPT ![w] =
                  IF req[w].file_hash \in DOMAIN file_hash_map
                  THEN [req[w] EXCEPT !.pc = "u_append",
                                      !.stored_name = file_hash_map[req[w].file_hash]]
                  ELSE Respond_(w, 500, NoFile, FALSE)]
    /\ UNCHANGED <<session_files, file_hash_map, disk, job, nextId>>
    /\ UNCHANGED <<pre, notRegVars>>

\* lines 332-334: a fresh stored name, and file.save
U_Save(w) ==
    /\ req[w].pc = "u_save"
    /\ LET name == [uid |-> req[w].uid, ext |-> req[w].ext] IN
       /\ disk' = disk \cup {[name |-> name, content |-> req[w].file_hash]}
       /\ req' = [req EXCEPT ![w] = [req[w] EXCEPT !.pc = "u_register", !.stored_name = name]]
    /\ UNCHANGED <<session_files, file_hash_map, job, nextId>>
    /\ UNCHANGED <<pre, notRegVars>>

\* line 335: `file_hash_map[file_hash] = stored_name`
U_Register(w) ==
    /\ req[w].pc = "u_register"
    /\ file_hash_map' = [x \in DOMAIN file_hash_map \cup {req[w].file_hash} |->
                            IF x = req[w].file_hash THEN req[w].stored_name
                            ELSE file_hash_map[x]]
    /\ req' = [req EXCEPT ![w].pc = "u_append"]
    /\ UNCHANGED <<session_files, disk, job, nextId>>
    /\ UNCHANGED <<pre, notRegVars>>

\* lines 338-351: the reference appended to the session's list
U_Append(w) ==
    /\ req[w].pc = "u_append"
    /\ LET s == req[w].session_id
           file_info == [id |-> req[w].uid, stored_name |-> req[w].stored_name,
                         hash |-> req[w].file_hash]
       IN IF s \in DOMAIN session_files
          THEN /\ session_files' = [session_files EXCEPT ![s] = Append(@, file_info)]
               /\ req' = [req EXCEPT ![w] = Respond_(w, 200, file_info, FALSE)]
          ELSE /\ req' = [req EXCEPT ![w] = Respond_(w, 500, NoFile, FALSE)]
               /\ UNCHANGED session_files
    /\ UNCHANGED <<file_hash_map, disk, job, nextId>>
    /\ UNCHANGED <<pre, notRegVars>>

\* ---- delete_file

\* lines 429-443: the reference looked up in the session's list
D_Begin(w, s, id) ==
    /\ Takes(w)
    /\ id \in 1..nextId
    /\ LET r == [IdleReq EXCEPT !.op = "delete", !.session_id = s, !.file_id = id]
           files == get_user_files(s)
           hits == { i \in 1..Len(files) : files[i].id = id }
       IN req' = [req EXCEPT ![w] =
                     IF hits = {} THEN [r EXCEPT !.pc = "done", !.status = 404]
                     ELSE LET f == files[CHOOSE i \in hits : \A j \in hits : i <= j] IN
                          [r EXCEPT !.pc = "d_remove", !.file_to_delete = f,
                                    !.stored_name = f.stored_name, !.file_hash = f.hash]]
    /\ UNCHANGED <<session_files, file_hash_map, disk, job, nextId>>

\* line 446: `session_files[session_id].remove(file_to_delete)` (KeyError or
\* ValueError if it has gone since the lookup)
D_Remove(w) ==
    /\ req[w].pc = "d_remove"
    /\ LET s == req[w].session_id IN
       IF s \in DOMAIN session_files /\ req[w].file_to_delete \in Range(session_files[s])
       THEN /\ session_files' = [session_files EXCEPT
                                    ![s] = RemoveFirst(@, req[w].file_to_delete)]
            /\ req' = [req EXCEPT ![w].pc = "d_scan"]
       ELSE /\ req' = [req EXCEPT ![w] = Respond_(w, 500, NoFile, FALSE)]
            /\ UNCHANGED session_files
    /\ UNCHANGED <<file_hash_map, disk, job, nextId>>
    /\ UNCHANGED <<pre, notRegVars>>

\* mutant: the search for another reference is left out
FileStillInUse_NeverShared(stored_name) == FALSE

\* lines 449-456: is the stored file referenced by any session's list
FileStillInUse(stored_name) == \E f \in AllFiles : f.stored_name = stored_name

D_Scan(w) ==
    /\ req[w].pc = "d_scan"
    /\ req' = [req EXCEPT ![w] =
                  IF FileStillInUse(req[w].stored_name)
                  THEN Respond_(w, 200, NoFile, FALSE)
                  ELSE [req[w] EXCEPT !.pc = "d_unlink"]]
    /\ UNCHANGED <<session_files, file_hash_map, disk, job, nextId>>
    /\ UNCHANGED <<pre, notRegVars>>

\* lines 460-464 and 470-473: `if os.path.exists(file_path): os.remove(file_path)`;
\* if os.remove raises, the except clause skips the fingerprint entry
D_Unlink(w) ==
    /\ req[w].pc = "d_unlink"
    /\ \E removed \in UnlinkOutcomes :
          IF removed
          THEN /\ disk' = { f \in disk : f.name # req[w].stored_name }
               /\ req' = [req EXCEPT ![w].pc = "d_unmap"]
          ELSE /\ UNCHANGED disk
               /\ req' = [req EXCEPT ![w] = Respond_(w, 200, NoFile, FALSE)]
    /\ UNCHANGED <<session_files, file_hash_map, job, nextId>>
    /\ UNCHANGED <<pre, notRegVars>>

\* lines 467-473: the fingerprint entry dropped
D_Unmap(w) ==
    /\ req[w].pc = "d_unmap"
    /\ file_hash_map' = WithoutKey(file_hash_map, req[w].file_hash)
    /\ req' = [req EXCEPT ![w] = Respond_(w, 200, NoFile, FALSE)]
    /\ UNCHANGED <<session_files, disk, job, nextId>>
    /\ UNCHANGED <<pre, notRegVars>>

\* ---- cleanup_old_files (cleanup.py), on the scheduler's thread

\* lines 46-50: the stored names referenced by any session
C_Begin ==
    /\ job.pc = "idle"
    /\ job' = [IdleJob EXCEPT !.pc = "c_glob",
                              !.referenced_files = { f.stored_name : f \in AllFiles }]
    /\ UNCHANGED <<session_files, file_hash_map, disk, req, nextId>>

\* lines 53-54: the listing of the upload folder
C_Glob ==
    /\ job.pc = "c_glob"
    /\ job' = [job EXCEPT !.pc = "c_loop",
                          !.todo = { f.name : f \in { g \in disk : GlobMatch(g.name) } }]
    /\ UNCHANGED <<session_files, file_hash_map, disk, req, nextId>>
    /\ UNCHANGED <<pre, notRegVars>>

\* line 56: `if stored_name not in referenced_files`
Unreferenced(stored_name, referenced_files) == stored_name \notin referenced_files

\* lines 55-58 and 65-66: one listed file; unlink raises if it has gone, and
\* the except clause moves on to the next file
C_Visit(n) ==
    /\ job.pc = "c_loop"
    /\ n \in job.todo
    /\ \E removed \in UnlinkOutcomes :
          IF Unreferenced(n, job.referenced_files) /\ OnDisk(n) /\ removed
          THEN /\ disk' = { f \in disk : f.name # n }
               /\ job' = [job EXCEPT !.pc = "c_unmap", !.todo = @ \ {n}, !.stored_name = n]
          ELSE /\ job' = [job EXCEPT !.todo = @ \ {n}]
               /\ UNCHANGED disk
    /\ UNCHANGED <<session_files, file_hash_map, req, nextId>>
    /\ UNCHANGED <<pre, notRegVars>>

\* lines 59-64: the fingerprint entry of the unlinked file dropped
C_Unmap ==
    /\ job.pc = "c_unmap"
    /\ LET keys == { k \in DOMAIN file_hash_map : file_hash_map[k] = job.stored_name } IN
       file_hash_map' = IF keys = {} THEN file_hash_map
                        ELSE WithoutKey(file_hash_map, CHOOSE k \in keys : TRUE)
    /\ job' = [job EXCEPT !.pc = "c_loop", !.stored_name = NoName]
    /\ UNCHANGED <<session_files, disk, req, nextId>>
    /\ UNCHANGED <<pre, notRegVars>>

\* the listing is used up
C_End ==
    /\ job.pc = "c_loop"
    /\ job.todo = {}
    /\ job' = IdleJob
    /\ UNCHANGED <<session_files, file_hash_map, disk, req, nextId>>
    /\ UNCHANGED <<pre, notRegVars>>

\* ---- daily_full_cleanup (app.py lines 149-169), on the scheduler's thread

\* upload_dir.glob('*.log') of app.py's daily_full_cleanup: case-sensitive
\* on the stored name
FullGlobMatch(name) == name.ext = <<"l", "o", "g">>

\* line 156: the listing of the upload folder
F_Listing == { f.name : f \in { g \in disk : FullGlobMatch(g.name) } }

F_Begin ==
    /\ job.pc = "idle"
    /\ job' = [IdleJob EXCEPT !.pc = "f_loop", !.todo = F_Listing]
    /\ UNCHANGED <<session_files, file_hash_map, disk, req, nextId>>

\* lines 156-161: one listed file unlinked; if it has gone already the
\* exception is printed and the loop goes on
F_Visit(n) ==
    /\ job.pc = "f_loop"
    /\ n \in job.todo
    /\ \E removed \in UnlinkOutcomes :
          /\ disk' = IF removed THEN { f \in disk : f.name # n } ELSE disk
          /\ job' = [job EXCEPT !.todo = @ \ {n}]
    /\ UNCHANGED <<session_files, file_hash_map, req, nextId>>
    /\ UNCHANGED <<pre, notRegVars>>

\* line 164: session_files.clear()
F_ClearSessions ==
    /\ job.pc = "f_loop"
    /\ job.todo = {}
    /\ session_files' = <<>>
    /\ job' = [job EXCEPT !.pc = "f_map"]
    /\ UNCHANGED <<file_hash_map, disk, req, nextId>>
    /\ UNCHANGED <<pre, notRegVars>>

\* line 167: file_hash_map.clear()
F_ClearMap ==
    /\ job.pc = "f_map"
    /\ file_hash_map' = <<>>
    /\ job' = IdleJob
    /\ UNCHANGED <<session_files, disk, req, nextId>>
    /\ UNCHANGED <<pre, notRegVars>>

\* ---- get_logs and get_file_timerange: from the reference to the open file

QueryOps == {"get_logs", "get_file_timerange"}

\* lines 532-544 and 479-490: the reference looked up in the session's list
Q_Begin(w, s, id, op) ==
    /\ Takes(w)
    /\ id \in 1..nextId
    /\ LET r == [IdleReq EXCEPT !.op = op, !.session_id = s, !.file_id = id]
           files == get_user_files(s)
           hits == { i \in 1..Len(files) : files[i].id = id }
       IN req' = [req EXCEPT ![w] =
                     IF hits = {} THEN [r EXCEPT !.pc = "done", !.status = 404]
                     ELSE LET f == files[CHOOSE i \in hits : \A j \in hits : i <= j] IN
                          [r EXCEPT !.pc = "q_exists", !.stored_name = f.stored_name,
                                    !.file_hash = f.hash]]
    /\ UNCHANGED <<session_files, file_hash_map, disk, job, nextId>>

\* lines 546-549 and 492-495: `if not os.path.exists(file_path)`: 404
Q_Exists(w) ==
    /\ req[w].pc = "q_exists"
    /\ req' = [req EXCEPT ![w] =
                  IF OnDisk(req[w].stored_name) THEN [req[w] EXCEPT !.pc = "q_open"]
                  ELSE Respond_(w, 404, NoFile, FALSE)]
    /\ UNCHANGED <<session_files, file_hash_map, disk, job, nextId>>
    /\ UNCHANGED <<pre, notRegVars>>

\* the file opened for the forward scan (the first next() of the generator
\* at line 603, the `with open` of line 503): open raises if the file has
\* gone, and `except Exception` answers 500
Q_Open(w) ==
    /\ req[w].pc = "q_open"
    /\ req' = [req EXCEPT ![w] =
                  IF ~OnDisk(req[w].stored_name) THEN Respond_(w, 500, NoFile, FALSE)
                  ELSE IF req[w].op = "get_file_timerange" THEN [req[w] EXCEPT !.pc = "q_tail"]
                  ELSE Respond_(w, 200, NoFile, FALSE)]
    /\ UNCHANGED <<session_files, file_hash_map, disk, job, nextId>>
    /\ UNCHANGED <<pre, notRegVars>>

\* line 511: read_last_lines opens the file a second time, inside the same
\* try block
Q_Tail(w) ==
    /\ req[w].pc = "q_tail"
    /\ req' = [req EXCEPT ![w] =
                  IF ~OnDisk(req[w].stored_name) THEN Respond_(w, 500, NoFile, FALSE)
                  ELSE Respond_(w, 200, NoFile, FALSE)]
    /\ UNCHANGED <<session_files, file_hash_map, disk, job, nextId>>
    /\ UNCHANGED <<pre, notRegVars>>

\* ---- the service with its threads interleaved

Quiet == job.pc = "idle" /\ \A w \in Workers : Free(w)

InitReg ==
    /\ RegInit /\ MatchIdle /\ content = <<>> /\ StreamIdle /\ TailIdle /\ ParseIdle
    /\ RangeIdle

\* uploads and distinct contents tried with the threads interleaved
RaceUploads == 2
RaceHashes == 1

Upload(w, s, h, x) ==
    /\ nextId < RaceUploads
    /\ U_Begin(w, s, h, x)
    /\ UNCHANGED <<pre, notRegVars>>

Delete(w, s, id) ==
    /\ D_Begin(w, s, id)
    /\ UNCHANGED <<pre, notRegVars>>

Cleanup ==
    /\ C_Begin
    /\ UNCHANGED <<pre, notRegVars>>

Steps ==
    \/ \E w \in Workers : U_Lookup(w)
    \/ \E w \in Workers : U_Reuse(w)
    \/ \E w \in Workers : U_Save(w)
    \/ \E w \in Workers : U_Register(w)
    \/ \E w \in Workers : U_Append(w)
    \/ \E w \in Workers : D_Remove(w)
    \/ \E w \in Workers : D_Scan(w)
    \/ \E w \in Workers : D_Unlink(w)
    \/ \E w \in Workers : D_Unmap(w)
    \/ C_Glob
    \/ \E n \in job.todo : C_Visit(n)
    \/ C_Unmap
    \/ C_End

Next ==
    \/ \E w \in Workers, s \in Sessions, h \in 1..RaceHashes, x \in Exts : Upload(w, s, h, x)
    \/ \E w \in Workers, s \in Sessions, id \in 1..RaceUploads : Delete(w, s, id)
    \/ Cleanup
    \/ Steps

Spec == InitReg /\ [][Next]_vars

\* ---- the service with its operations run one at a time: an operation
\* begins only when no other is under way, and `pre` keeps the registry as
\* the operation found it

Snapshot(by) ==
    [by |-> by, after |-> pre.by, session_files |-> session_files,
     file_hash_map |-> file_hash_map, disk |-> disk]

SeqUpload(w, s, h, x) ==
    /\ Quiet
    /\ nextId < MaxUploads
    /\ U_Begin(w, s, h, x)
    /\ pre' = Snapshot(w)
    /\ UNCHANGED notRegVars

SeqDelete(w, s, id) ==
    /\ Quiet
    /\ D_Begin(w, s, id)
    /\ pre' = Snapshot(w)
    /\ UNCHANGED notRegVars

SeqCleanup ==
    /\ Quiet
    /\ C_Begin
    /\ pre' = Snapshot(0)
    /\ UNCHANGED notRegVars

\* run one at a time, delete_file leaves no unreferenced file behind, so the
\* cleanup job finds nothing to unlink and never reaches C_Unmap
SeqSteps ==
    \/ \E w \in Workers : U_Lookup(w)
    \/ \E w \in Workers : U_Reuse(w)
    \/ \E w \in Workers : U_Save(w)
    \/ \E w \in Workers : U_Register(w)
    \/ \E w \in Workers : U_Append(w)
    \/ \E w \in Workers : D_Remove(w)
    \/ \E w \in Workers : D_Scan(w)
    \/ \E w \in Workers : D_Unlink(w)
    \/ \E w \in Workers : D_Unmap(w)
    \/ C_Glob
    \/ \E n \in job.todo : C_Visit(n)
    \/ C_End

\* daily_full_cleanup begun when nothing else is under way; `pre.by` is -2
\* for it
SeqFullCleanup ==
    /\ Quiet
    /\ F_Begin
    /\ pre' = Snapshot(-2)
    /\ UNCHANGED notRegVars

FullSteps ==
    \/ \E n \in job.todo : F_Visit(n)
    \/ F_ClearSessions
    \/ F_ClearMap

NextSeq ==
    \/ \E w \in Workers, s \in Sessions, h \in Hashes, x \in Exts : SeqUpload(w, s, h, x)
    \/ \E w \in Workers, s \in Sessions, id \in 1..MaxUploads : SeqDelete(w, s, id)
    \/ SeqCleanup
    \/ SeqFullCleanup
    \/ SeqSteps
    \/ FullSteps

SpecSeq == InitReg /\ [][NextSeq]_vars

SeqCleanupFindsNothing == job.pc # "c_unmap"

-----------------------------------------------------------------------------
(* Properties of the registry                                              *)

FilesIn(lists) == UNION { Range(lists[s]) : s \in DOMAIN lists }

\* C1: however two uploads of the same content interleave, one physical file
\* is saved for the fingerprint and every reference to that content carries
\* the same stored_name.
C1_OneFilePerFingerprint ==
    /\ \A f, g \in AllFiles : f.hash = g.hash => f.stored_name = g.stored_name
    /\ \A f, g \in disk : f.content = g.content => f.name = g.name

\* C2: however uploads, deletes and the cleanup job interleave, every
\* reference in a session's list names a physical file that exists.
C2_NoDanglingReference ==
    \A f \in AllFiles : OnDisk(f.stored_name)

\* the operation of worker w has just completed and nothing ran since
JustDone(w, op) ==
    /\ Quiet /\ pre.by = w
    /\ req[w].pc = "done" /\ req[w].op = op /\ req[w].status = 200

C3_WitnessLast ==
    \E w \in Workers :
        /\ JustDone(w, "delete")
        /\ \E f \in pre.disk : f.name = req[w].stored_name
        /\ ~OnDisk(req[w].stored_name)
        /\ req[w].file_hash \notin DOMAIN file_hash_map

\* C4: run on its own, an accepted upload of content that some session
\* references returns a reference with the stored_name of the existing one
\* and saves no file; for the same session the existing reference is
\* returned and none is added, for another session one reference is added.
C4_UploadReusesFile ==
    \A w \in Workers :
        (/\ Quiet /\ pre.by = w
         /\ req[w].pc = "done" /\ req[w].op = "upload" /\ allowed_file(req[w].ext)
         /\ \E f \in FilesIn(pre.session_files) : f.hash = req[w].file_hash)
        => LET s == req[w].session_id
               h == req[w].file_hash
               before == IF s \in DOMAIN pre.session_files THEN pre.session_files[s] ELSE <<>>
               own == { f \in Range(before) : f.hash = h }
           IN /\ req[w].status = 200
              /\ \A f \in FilesIn(pre.session_files) :
                    f.hash = h => req[w].file.stored_name = f.stored_name
              /\ disk = pre.disk
              /\ IF own # {}
                 THEN /\ req[w].duplicate
                      /\ req[w].file \in own
                      /\ session_files[s] = before
                 ELSE /\ ~req[w].duplicate
                      /\ session_files[s] = Append(before, req[w].file)

\* the same content uploaded by another session: the stored file is shared
C4_Witness ==
    \E w \in Workers :
        /\ Quiet /\ pre.by = w
        /\ req[w].pc = "done" /\ req[w].op = "upload" /\ req[w].status = 200
        /\ ~req[w].duplicate
        /\ \E f \in FilesIn(pre.session_files) :
              f.hash = req[w].file_hash /\ f.stored_name = req[w].file.stored_name
        /\ nextId = MaxUploads

\* the same content uploaded again by the same session
C4_WitnessSameSession ==
    \E w \in Workers :
        /\ Quiet /\ pre.by = w
        /\ req[w].pc = "done" /\ req[w].op = "upload" /\ req[w].duplicate
        /\ session_files = pre.session_files

-----------------------------------------------------------------------------
(* parse_timestamp on one line of text (utils.py lines 61-74)              *)

\* the pieces the sample lines are written from
SampleYears   == {0, 2023, 2024, 9999}
SampleMonths  == {0, 1, 2, 12, 13}
SampleDays    == {0, 1, 28, 29, 30, 31, 32}
SampleHours   == {0, 23, 24}
SampleMinutes == {0, 59, 60}
SampleSeconds == {0, 59, 60}
SampleLeads   == { <<>>, <<" ">> }
SampleGaps    == { <<" ">>, <<"\t">>, <<" ", " ">>, <<>>, <<"T">> }
SampleRests   == { <<>>, <<" ", "a", "b">> }

\* text that has not the shape of a bracketed prefix
OddLines ==
    { <<>>,
      <<"a", "b">>,
      <<"[">>,
      <<"[", "2", "0", "2", "4", "-", "0", "1", "-", "0", "1", "]">>,
      <<"[", "2", "0", "2", "4", "-", "1", "-", "0", "1", " ",
        "0", "0", ":", "0", "0", ":", "0", "0", "]">>,
      <<"[", "2", "0", "x", "4", "-", "0", "1", "-", "0", "1", " ",
        "0", "0", ":", "0", "0", ":", "0", "0", "]">>,
      <<"[", "2", "0", "2", "4", "/", "0", "1", "/", "0", "1", " ",
        "0", "0", ":", "0", "0", ":", "0", "0", "]">>,
      <<"[", "2", "0", "2", "4", "-", "0", "1", "-", "0", "1", " ",
        "0", "0", ":", "0", "0", ":", "0", "0">>,
      <<"2", "0", "2", "4", "-", "0", "1", "-", "0", "1", " ",
        "0", "0", ":", "0", "0", ":", "0", "0">> }

\* the text written from its pieces
Written(parts) ==
    IF parts.shape = "odd" THEN parts.text
    ELSE parts.lead \o <<"[">> \o Fmt4(parts.y) \o <<"-">> \o Fmt2(parts.m) \o <<"-">>
            \o Fmt2(parts.d) \o parts.gap
            \o Fmt2(parts.H) \o <<":">> \o Fmt2(parts.M) \o <<":">> \o Fmt2(parts.S)
            \o <<"]">> \o parts.rest

NoParts ==
    [shape |-> "odd", text |-> <<>>, lead |-> <<>>, y |-> 0, m |-> 0, d |-> 0,
     gap |-> <<>>, H |-> 0, M |-> 0, S |-> 0, rest |-> <<>>]

ParseInit ==
    /\ \/ \E t \in OddLines : p_parts = [NoParts EXCEPT !.text = t]
       \/ \E lead \in SampleLeads, y \in SampleYears, m \in SampleMonths,
             d \in SampleDays, gap \in SampleGaps, H \in SampleHours,
             M \in SampleMinutes, S \in SampleSeconds, rest \in SampleRests :
             p_parts = [shape |-> "bracketed", text |-> <<>>, lead |-> lead,
                        y |-> y, m |-> m, d |-> d, gap |-> gap,
                        H |-> H, M |-> M, S |-> S, rest |-> rest]
    /\ p_line = Written(p_parts)
    /\ p_ts = None
    /\ p_pc = "new"

\* ts = parse_timestamp(line)
Parse ==
    /\ p_pc = "new"
    /\ p_ts' = parse_timestamp(p_line)
    /\ p_pc' = "parsed"
    /\ UNCHANGED <<p_line, p_parts>>
    /\ UNCHANGED notParseVars

InitParse ==
    /\ ParseInit /\ RegIdle /\ MatchIdle /\ content = <<>> /\ StreamIdle /\ TailIdle
    /\ RangeIdle

NextParse == Parse

SpecParse == InitParse /\ [][NextParse]_vars

\* the calendar, written out month by month
MonthLengths == <<31, 28, 31, 30, 31, 30, 31, 31, 30, 31, 30, 31>>
IsCalendarDate(y, m, d) ==
    /\ y >= 1 /\ y <= 9999
    /\ m >= 1 /\ m <= 12
    /\ d >= 1
    /\ \/ d <= MonthLengths[m]
       \/ m = 2 /\ d = 29 /\ (y % 400 = 0 \/ (y % 4 = 0 /\ y % 100 # 0))
IsClockTime(H, M, S) == H >= 0 /\ H <= 23 /\ M >= 0 /\ M <= 59 /\ S >= 0 /\ S <= 59

\* the written text begins with a bracketed prefix whose date and time parts
\* are separated by one of `gaps` and whose six components are a valid date
\* and time
ValidPrefix(parts, gaps) ==
    /\ parts.shape = "bracketed"
    /\ parts.lead = <<>>
    /\ parts.gap \in gaps
    /\ IsCalendarDate(parts.y, parts.m, parts.d)
    /\ IsClockTime(parts.H, parts.M, parts.S)

ComponentsOf(parts) == <<parts.y, parts.m, parts.d, parts.H, parts.M, parts.S>>

WhitespaceGaps == { g \in SampleGaps : g # <<>> /\ \A i \in 1..Len(g) : g[i] \in Whitespace }

\* C13 (as amended): for every line that begins with a bracketed prefix
\* [YYYY-MM-DD<one or more whitespace characters>HH:MM:SS] whose six numeric
\* components are a valid calendar date and time, parse_timestamp returns
\* exactly those six values; for every other text (a component out of range,
\* a prefix not at position 0, another shape) it returns None.
C13_ParseTimestamp ==
    p_pc = "parsed" =>
        p_ts = IF ValidPrefix(p_parts, WhitespaceGaps) THEN ComponentsOf(p_parts) ELSE None

\* C13 as stated: only a single space between the date and the time makes a
\* prefix, every other text gives None
C13_AsStated ==
    p_pc = "parsed" =>
        p_ts = IF ValidPrefix(p_parts, { <<" ">> }) THEN ComponentsOf(p_parts) ELSE None

\* a leap day with text after the prefix, read back component by component
C13_Witness ==
    /\ p_pc = "parsed"
    /\ p_parts.shape = "bracketed" /\ p_parts.gap = <<" ">> /\ p_parts.rest # <<>>
    /\ ComponentsOf(p_parts) = <<2024, 2, 29, 23, 59, 59>>
    /\ p_ts = <<2024, 2, 29, 23, 59, 59>>

\* a well-shaped prefix with day 30 of February gives None
C13_WitnessOutOfRange ==
    /\ p_pc = "parsed"
    /\ p_parts.shape = "bracketed" /\ p_parts.lead = <<>> /\ p_parts.gap = <<" ">>
    /\ ComponentsOf(p_parts) = <<2024, 2, 30, 0, 0, 0>>
    /\ p_ts = None

-----------------------------------------------------------------------------
(* Letter case and the compiled plan                                       *)

UpperChar(c) ==
    IF \E i \in 1..26 : LowerLetters[i] = c
    THEN UpperLetters[CHOOSE i \in 1..26 : LowerLetters[i] = c]
    ELSE c
Upper(s) == [i \in 1..Len(s) |-> UpperChar(s[i])]
SwapCase(s) == [i \in 1..Len(s) |-> IF LowerChar(s[i]) = s[i] THEN UpperChar(s[i])
                                     ELSE LowerChar(s[i])]

\* the ways the letter case of a text is changed: 0 leaves it as written
CaseChanges == 0..3
CaseChange(k, s) ==
    IF k = 1 THEN Lower(s) ELSE IF k = 2 THEN Upper(s) ELSE IF k = 3 THEN SwapCase(s) ELSE s

\* the filter list with the case of one term, or of every term, changed
TermVariants(filters) ==
    { [filters EXCEPT ![i].value = CaseChange(k, @)] :
          i \in 1..Len(filters), k \in CaseChanges }
        \cup { [i \in 1..Len(filters) |->
                   [filters[i] EXCEPT !.value = CaseChange(k, @)]] : k \in CaseChanges }

\* what the plan compiled from fs answers on line, in the request's logic
PlanResult(fs, line, case_sensitive) ==
    LET matcher == compile_filter_plan(fs, m_logic, case_sensitive) IN
    matcher = None \/ match_line(matcher, line)

AsWritten(f, line) == IsSubstring(f.value, line)

\* C14: with case_sensitive=false the plan's result on a line is the same
\* after any change of letter case of the line or of any include/exclude term,
\* under AND and under OR; with case_sensitive=true every term is looked up
\* exactly as written in the line as written.
C14_CaseInsensitive ==
    m_pc = "matched" =>
        /\ ~m_cs =>
              \A k \in CaseChanges : \A fs \in TermVariants(m_filters) :
                  PlanResult(fs, CaseChange(k, m_line), FALSE) = m_result
        /\ (m_cs /\ PassesDates(m_line, m_filters)) =>
              LET incs == FiltersOf(m_filters, "include")
                  excs == FiltersOf(m_filters, "exclude")
              IN m_result <=>
                    IF m_logic = "AND" \/ incs \cup excs = {}
                    THEN /\ \A f \in incs : AsWritten(f, m_line)
                         /\ \A f \in excs : ~AsWritten(f, m_line)
                    ELSE \/ \E f \in incs : AsWritten(f, m_line)
                         \/ \E f \in excs : ~AsWritten(f, m_line)

\* an include term written in upper case accepted on a line that holds it in
\* lower case only
C14_Witness ==
    /\ m_pc = "matched" /\ ~m_cs
    /\ FiltersOf(m_filters, "include") # {}
    /\ FiltersOf(m_filters, "date") = {} /\ FiltersOf(m_filters, "exclude") = {}
    /\ \A f \in FiltersOf(m_filters, "include") :
          ~AsWritten(f, m_line) /\ f.value # Lower(f.value)
    /\ m_result

\* the same term and line with case_sensitive=true: rejected
C14_WitnessExact ==
    /\ m_pc = "matched" /\ m_cs
    /\ FiltersOf(m_filters, "include") # {}
    /\ FiltersOf(m_filters, "date") = {} /\ FiltersOf(m_filters, "exclude") = {}
    /\ \A f \in FiltersOf(m_filters, "include") :
          ~AsWritten(f, m_line) /\ IsSubstring(Lower(f.value), Lower(m_line))
    /\ ~m_result

-----------------------------------------------------------------------------
(* The compiled plan against apply_filters                                 *)

\* C18: for a non-empty filter list, the matcher returned by
\* compile_filter_plan answers on every line what apply_filters answers on the
\* same filters, logic and case_sensitive flag; for the empty list
\* compile_filter_plan returns None and apply_filters answers true.
C18_PlanEqualsApplyFilters ==
    m_pc = "matched" =>
        IF m_filters # <<>>
        THEN m_plan # None /\ match_line(m_plan, m_line) = m_applied
        ELSE m_plan = None /\ m_applied

\* the two agree on a rejection decided by the second of two date ranges,
\* under OR with a satisfied include term, case-insensitively
C18_Witness ==
    /\ m_pc = "matched" /\ m_logic = "OR" /\ ~m_cs
    /\ Len(SelectTypes(m_filters, {"date"})) = 2
    /\ parse_timestamp(m_line) # None
    /\ LET first == SelectTypes(m_filters, {"date"})[1]
       IN InBounds(parse_timestamp(m_line), first.start_date, first.end_date)
    /\ \E f \in FiltersOf(m_filters, "include") : TermPresent(f, m_line)
    /\ m_plan # None
    /\ ~match_line(m_plan, m_line) /\ ~m_applied

\* the empty list: no plan, and apply_filters lets the line through
C18_WitnessEmpty ==
    /\ m_pc = "matched" /\ m_filters = <<>>
    /\ m_plan = None /\ m_applied /\ m_line # <<>>

-----------------------------------------------------------------------------
(* The time range of a get_logs result                                     *)

\* the entries that carry a timestamp, in order
Stamped(ls) == SelectSeq(ls, LAMBDA e : app_parse_timestamp(e.content) # None)

\* the lines of the file that match but were not emitted
NotEmitted == SubSeq(MatchingLines, Len(response.lines) + 1, Len(MatchingLines))

\* C12: in a get_logs result start_time is the timestamp of the first emitted
\* line that has one and end_time that of the last emitted line that has one,
\* over the emitted (possibly truncated) lines only; start_time is present
\* exactly when end_time is, and both are absent exactly when no emitted line
\* carries a timestamp.
C12_EmittedTimeRange ==
    s_pc = "done" =>
        LET stamped == Stamped(response.lines) IN
        /\ response.start_time =
              IF stamped = <<>> THEN None ELSE app_parse_timestamp(stamped[1].content)
        /\ response.end_time =
              IF stamped = <<>> THEN None
              ELSE app_parse_timestamp(stamped[Len(stamped)].content)
        /\ (response.start_time = None) <=> (response.end_time = None)
        /\ (response.start_time = None) <=> (stamped = <<>>)

\* a truncated result whose end_time is that of an emitted line although a
\* later-stamped matching line was cut by the cap, and whose last emitted
\* line has no timestamp
C12_Witness ==
    /\ s_pc = "done" /\ response.truncated
    /\ response.lines # <<>>
    /\ app_parse_timestamp(response.lines[Len(response.lines)].content) = None
    /\ response.end_time # None
    /\ \E i \in 1..Len(NotEmitted) :
          /\ app_parse_timestamp(NotEmitted[i].content) # None
          /\ TsLess(response.end_time, app_parse_timestamp(NotEmitted[i].content))

\* lines were emitted, none with a timestamp, while a filtered-out line of
\* the file has one: both fields absent
C12_WitnessAbsent ==
    /\ s_pc = "done"
    /\ response.lines # <<>>
    /\ response.start_time = None /\ response.end_time = None
    /\ \E i \in 1..Len(LinesFrom(content, 0)) :
          app_parse_timestamp(LinesFrom(content, 0)[i]) # None

-----------------------------------------------------------------------------
(* The producer is lazy: what it has read when the consumer stops          *)

\* the chunk the generator delivered last
LastChunk == s_chunks[Len(s_chunks)]

\* lines the producer had read when it delivered the last chunk: up to the
\* line that filled it, or the whole file for a short last chunk
ReadAtLastDelivery ==
    IF Len(LastChunk) = chunk_size
    THEN LastChunk[Len(LastChunk)].line_number
    ELSE Len(LinesFrom(content, 0))

\* C17 (as amended): the producer's pending buffer never holds more than
\* chunk_size lines; a full chunk is delivered as soon as the line that fills
\* it is read; and once get_logs has been handed a chunk that would take it
\* past max_results it truncates and never resumes the generator, so the
\* producer has read no line beyond those read when it delivered that chunk.
C17_LazyProducer ==
    /\ Len(lines_buffer) <= chunk_size
    /\ s_pc = "yielded" =>
          /\ Len(lines_buffer) = chunk_size
          /\ s_read = lines_buffer[Len(lines_buffer)].line_number
    /\ truncated =>
          /\ s_pc \in {"break", "done"}
          /\ s_read = ReadAtLastDelivery

\* C17 as stated: a consumer that has reached max_results requests no further
\* chunk
C17_AsStated ==
    /\ Len(lines_buffer) <= chunk_size
    /\ (all_lines # <<>> /\ Len(all_lines) >= max_results) =>
          /\ s_pc \in {"break", "exhausted", "done"}
          /\ s_read = ReadAtLastDelivery

\* the consumer stopped at the cap while lines of the file are still unread
C17_Witness ==
    /\ s_pc = "break" /\ truncated
    /\ max_results >= 1 /\ Len(all_lines) = max_results
    /\ s_read = ReadAtLastDelivery
    /\ s_read < Len(LinesFrom(content, 0))

\* the consumer holds exactly max_results lines and the generator, resumed,
\* has read a further line
C17_WitnessResumedAtCap ==
    /\ s_pc = "scan" /\ ~truncated
    /\ all_lines # <<>> /\ Len(all_lines) = max_results
    /\ s_read > all_lines[Len(all_lines)].line_number

-----------------------------------------------------------------------------
(* get_file_timerange: the first timestamp read forward, the last one      *)
(* looked for in the lines read_last_lines returns (app.py lines 497-527)  *)

RangeLines == ScanLines \cup { <<"c">> }
RangeFiles == FilesOf(RangeLines, MaxFileLines)

\* the depth of the backward window is 1000 lines in the code and its read
\* buffer 8192 bytes; the smaller values let a file of MaxFileLines lines be
\* longer than the window
RangeInit ==
    /\ content \in RangeFiles
    /\ num_lines \in (1..MaxNumLines) \cup {DefaultNumLines}
    /\ buffer_size \in (1..MaxBufferSize) \cup {DefaultBufferSize}
    /\ t_pc = "idle" /\ offset = 0 /\ buffer = <<>> /\ lines = <<>> /\ t_result = <<>>
    /\ r_pc = "first" /\ first_timestamp = None /\ last_timestamp = None
    /\ response_data = <<>>

\* lines 503-508: `for line in f: ts = parse_timestamp(line.rstrip('\n\r'))`,
\* stopping at the first timestamp
RECURSIVE FirstInFile(_, _)
FirstInFile(bytes, pos) ==
    IF pos >= Len(bytes) THEN None
    ELSE LET r == ReadLine(bytes, pos)
             ts == app_parse_timestamp(RStrip(r.line, {"\n", "\r"}))
         IN IF ts # None THEN ts ELSE FirstInFile(bytes, r.next)

\* lines 512-516: `for line in reversed(last_lines)`
RECURSIVE LastInLines(_, _)
LastInLines(ls, i) ==
    IF i < 1 THEN None
    ELSE IF app_parse_timestamp(ls[i]) # None THEN app_parse_timestamp(ls[i])
    ELSE LastInLines(ls, i - 1)

\* the forward scan, then the call of read_last_lines
TimerangeFirst ==
    /\ r_pc = "first"
    /\ first_timestamp' = FirstInFile(content, 0)
    /\ r_pc' = "tail"
    /\ t_pc' = "open"
    /\ UNCHANGED <<content, num_lines, buffer_size, offset, buffer, lines, t_result,
                   last_timestamp, response_data>>
    /\ UNCHANGED notRangeVars

\* read_last_lines has returned: the backward scan of its lines
TimerangeLast ==
    /\ r_pc = "tail"
    /\ t_pc = "done"
    /\ last_timestamp' = LastInLines(t_result, Len(t_result))
    /\ r_pc' = "respond"
    /\ UNCHANGED <<content, tailVars, first_timestamp, response_data>>
    /\ UNCHANGED notRangeVars

\* lines 521-527: a field is set only for a timestamp that was found
TimerangeRespond ==
    /\ r_pc = "respond"
    /\ response_data' = [start_time |-> first_timestamp, end_time |-> last_timestamp]
    /\ r_pc' = "done"
    /\ UNCHANGED <<content, tailVars, first_timestamp, last_timestamp>>
    /\ UNCHANGED notRangeVars

InitRange ==
    /\ RangeInit /\ RegIdle /\ MatchIdle /\ StreamIdle /\ ParseIdle

NextRange ==
    \/ TimerangeFirst
    \/ TailOpen \/ TailRead \/ TailLoopExit \/ TailReturn
    \/ TimerangeLast
    \/ TimerangeRespond

SpecRange == InitRange /\ [][NextRange]_vars

\* the timestamps of the lines of the whole file, in file order
FileStamps ==
    LET ls == LinesFrom(content, 0)
        stamped == SelectSeq(ls, LAMBDA l : app_parse_timestamp(l) # None)
    IN [i \in 1..Len(stamped) |-> app_parse_timestamp(stamped[i])]

\* C11: the time-range response has start_time = the timestamp of the first
\* timestamped line of the whole file and end_time = that of the last
\* timestamped line of the whole file, however many lines follow it; both
\* are absent exactly when no line of the file has a timestamp.
C11_WholeFileRange ==
    r_pc = "done" =>
        /\ response_data.start_time =
              IF FileStamps = <<>> THEN None ELSE FileStamps[1]
        /\ response_data.end_time =
              IF FileStamps = <<>> THEN None ELSE FileStamps[Len(FileStamps)]

\* the half of C11 that the forward scan gives
C11_StartTime ==
    r_pc = "done" =>
        response_data.start_time = IF FileStamps = <<>> THEN None ELSE FileStamps[1]

-----------------------------------------------------------------------------
(* daily_full_cleanup run on its own                                       *)

\* daily_full_cleanup has just completed and nothing ran since
FullCleanupDone == Quiet /\ pre.by = -2

\* C16: once daily_full_cleanup has completed (its unlinks succeeding), after
\* any sequence of accepted uploads, no file stored by upload_file is left in
\* the upload folder and session_files and file_hash_map are empty; run again
\* on that state it changes nothing.
C16_FullReset ==
    FullCleanupDone =>
        /\ disk = {}
        /\ session_files = <<>>
        /\ file_hash_map = <<>>
        /\ pre.after = -2 =>
              /\ disk = pre.disk
              /\ session_files = pre.session_files
              /\ file_hash_map = pre.file_hash_map

\* what does hold: the two mappings are empty, every stored file whose name
\* ends in lower-case .log has gone, and a second run changes nothing
C16_MappingsReset ==
    FullCleanupDone =>
        /\ \A f \in disk : ~FullGlobMatch(f.name)
        /\ session_files = <<>>
        /\ file_hash_map = <<>>
        /\ pre.after = -2 =>
              /\ disk = pre.disk
              /\ session_files = pre.session_files
              /\ file_hash_map = pre.file_hash_map

-----------------------------------------------------------------------------
(* Queries against a registry that deletes and cleans up concurrently:     *)
(* uploads are run one at a time, then queries, deletes and the two        *)
(* cleanup jobs interleave step by step                                    *)

UploadUnderWay == \E w \in Workers : req[w].op = "upload" /\ ~Free(w)

QUpload(w, s, h, x) ==
    /\ Quiet
    /\ nextId < MaxUploads
    /\ U_Begin(w, s, h, x)
    /\ UNCHANGED <<pre, notRegVars>>

Query(w, s, id, op) ==
    /\ ~UploadUnderWay
    /\ Q_Begin(w, s, id, op)
    /\ UNCHANGED <<pre, notRegVars>>

QDelete(w, s, id) ==
    /\ ~UploadUnderWay
    /\ D_Begin(w, s, id)
    /\ UNCHANGED <<pre, notRegVars>>

QCleanup ==
    /\ ~UploadUnderWay
    /\ C_Begin
    /\ UNCHANGED <<pre, notRegVars>>

QFullCleanup ==
    /\ ~UploadUnderWay
    /\ F_Begin
    /\ UNCHANGED <<pre, notRegVars>>

QuerySteps ==
    \/ \E w \in Workers : Q_Exists(w)
    \/ \E w \in Workers : Q_Open(w)
    \/ \E w \in Workers : Q_Tail(w)

NextQuery ==
    \/ \E w \in Workers, s \in Sessions, h \in 1..RaceHashes, x \in Exts :
          QUpload(w, s, h, x)
    \/ \E w \in Workers, s \in Sessions, id \in 1..MaxUploads, op \in QueryOps :
          Query(w, s, id, op)
    \/ \E w \in Workers, s \in Sessions, id \in 1..MaxUploads : QDelete(w, s, id)
    \/ QCleanup
    \/ QFullCleanup
    \/ Steps
    \/ FullSteps
    \/ QuerySteps

SpecQuery == InitReg /\ [][NextQuery]_vars

\* C15: get_logs and get_file_timerange answer 200 or 'not found' (404),
\* never a server error (500), even when the physical file of the reference
\* disappears between the handler resolving the reference and the scan
\* opening the file.
C15_VanishedIsNotFound ==
    \A w \in Workers :
        (req[w].op \in QueryOps /\ req[w].pc = "done") => req[w].status \in {200, 404}

\* what does hold: a file already missing when the handler tests
\* os.path.exists is answered 404
C15_MissingAtTestIsNotFound ==
    [][\A w \in Workers :
          (req[w].pc = "q_exists" /\ req'[w].pc # "q_exists" /\ ~OnDisk(req[w].stored_name))
              => req'[w].pc = "done" /\ req'[w].status = 404]_vars

====
